---- MODULE Spec2Model ----
(***************************************************************************)
(* The edit-transaction state machine of bluebook_core                     *)
(* (TextEditorContext::consume_transaction, ctx.rs) over the rope-backed   *)
(* buffer (buffer_impl/rope), its grapheme cursor and its spans.           *)
(*                                                                         *)
(* The buffer is a sequence of UTF-8 bytes.  Three characters are enough   *)
(* to produce every boundary case of the code: 'a' (one byte), '\n' (one   *)
(* byte, a Control character for segmentation) and U+0301 COMBINING ACUTE  *)
(* ACCENT (two bytes CC 81, an Extend character that joins the cluster of  *)
(* the character before it).                                               *)
(***************************************************************************)
EXTENDS Integers, Sequences, FiniteSets, TLC

VARIABLES text_buffer, cursor_range, spans, transaction, result, pre,
          tree, entries, updates, frame, word_cursor

vars == <<text_buffer, cursor_range, spans, transaction, result, pre,
          tree, entries, updates, frame, word_cursor>>

\* The variables of the interval tree (span/augmented_avl_tree.rs): the
\* tree, the intervals handed to it so far (entry i carries the data i) and
\* the number of update_interval calls made.
tree_vars == <<tree, entries, updates>>

\* The variables of the editing context (ctx.rs).
ctx_vars == <<text_buffer, cursor_range, spans, pre>>

\* ------------------------------------------------------------------ bounds
MaxLen == 3

MaxCount == 2

\* ------------------------------------------------------------- characters
CharA == <<"a">>

CharLF == <<"LF">>

CharMark == <<"CC", "81">>

Chars == {CharA, CharLF, CharMark}

IsContinuationByte(b) == b = "81"

Min(a, b) == IF a < b THEN a ELSE b

Max(a, b) == IF a > b THEN a ELSE b

RECURSIVE TextsUpTo(_)
TextsUpTo(n) ==
  IF n = 0 THEN {<<>>}
  ELSE LET shorter == TextsUpTo(n - 1)
       IN  shorter \cup {t \o c : t \in shorter, c \in Chars}

Texts == {t \in TextsUpTo(MaxLen) : Len(t) <= MaxLen}

\* The strings a transaction may carry: "", "a", the combining mark alone.
Strings == {<<>>, CharA, CharMark}

Offsets == 0..(MaxLen + 1)

Counts == 0..MaxCount

\* ------------------------------------------------- str / segmentation
\* str::is_char_boundary
IsCharBoundary(t, i) ==
  \/ i = 0
  \/ i = Len(t)
  \/ /\ 0 < i
     /\ i < Len(t)
     /\ ~IsContinuationByte(t[i + 1])

\* UAX #29 over the three characters: GB1/GB2 break at the edges, GB4 breaks
\* after '\n', GB9 does not break before an Extend character, GB999 breaks.
IsGraphemeBoundary(t, i) ==
  \/ i = 0
  \/ i = Len(t)
  \/ /\ 0 < i
     /\ i < Len(t)
     /\ IsCharBoundary(t, i)
     /\ (t[i + 1] # "CC" \/ t[i] = "LF")

None == -1

Panic == -2

\* unicode_segmentation GraphemeCursor::prev_boundary from a char boundary:
\* step back one character at a time until a boundary is found.
RECURSIVE PrevBoundaryFrom(_, _)
PrevBoundaryFrom(t, o) ==
  LET back == IF IsContinuationByte(t[o]) THEN o - 2 ELSE o - 1
  IN  IF IsGraphemeBoundary(t, back) THEN back ELSE PrevBoundaryFrom(t, back)

\* GraphemeCursor::next_boundary from a char boundary.
RECURSIVE NextBoundaryFrom(_, _)
NextBoundaryFrom(t, o) ==
  LET fwd == IF t[o + 1] = "CC" THEN o + 2 ELSE o + 1
  IN  IF IsGraphemeBoundary(t, fwd) THEN fwd ELSE NextBoundaryFrom(t, fwd)

\* xi_rope Cursor::prev_grapheme as called by next_back: a position inside a
\* character is first moved forward to a char boundary; a position past the
\* end of the leaf slices the leaf out of range.
prev_grapheme(t, pos) ==
  IF pos > Len(t) THEN Panic
  ELSE LET p == IF IsCharBoundary(t, pos) THEN pos ELSE pos + 1
       IN  IF p = 0 THEN None ELSE PrevBoundaryFrom(t, p)

\* xi_rope Cursor::next_grapheme as called by next: a position inside a
\* character is first moved back to a char boundary.
next_grapheme(t, pos) ==
  IF pos > Len(t) THEN Panic
  ELSE LET p == IF IsCharBoundary(t, pos) THEN pos ELSE pos - 1
       IN  IF p = Len(t) THEN None ELSE NextBoundaryFrom(t, p)

\* RopeGraphemeCursor::next_back called k times; stops at the first None.
RECURSIVE StepsBack(_, _, _)
StepsBack(t, pos, k) ==
  IF k = 0 THEN pos
  ELSE LET r == prev_grapheme(t, pos)
       IN  IF r < 0 THEN r ELSE StepsBack(t, r, k - 1)

\* RopeGraphemeCursor::next called k times; stops at the first None.
RECURSIVE StepsForward(_, _, _)
StepsForward(t, pos, k) ==
  IF k = 0 THEN pos
  ELSE LET r == next_grapheme(t, pos)
       IN  IF r < 0 THEN r ELSE StepsForward(t, r, k - 1)

\* Iterator::nth(n) / DoubleEndedIterator::nth_back(n): skip n items and
\* return the one after them, i.e. n + 1 calls of next / next_back.
nth_back(t, pos, n) == StepsBack(t, pos, n + 1)

nth(t, pos, n) == StepsForward(t, pos, n + 1)

\* ------------------------------------------------------------ RopeBuffer
\* xi_rope Node::edit(iv, new): the text before min(len, iv.start), then
\* new, then the text from iv.end on.  A piece that is the whole rope is
\* cloned, any other piece is sliced out of the String leaf, and slicing a
\* str off a char boundary panics.
EditPanics(t, start, end) ==
  LET len == Len(t)
      p == Min(len, start)
  IN  \/ (0 < p /\ p < len /\ ~IsCharBoundary(t, p))
      \/ (0 < end /\ end < len /\ ~IsCharBoundary(t, end))

EditText(t, start, end, s) ==
  SubSeq(t, 1, Min(Len(t), start)) \o s \o SubSeq(t, end + 1, Len(t))

\* RopeBuffer::write: self.text.edit(offset..offset, s)
write(t, offset, s) ==
  IF EditPanics(t, offset, offset)
  THEN [panic |-> TRUE, text |-> t]
  ELSE [panic |-> FALSE, text |-> EditText(t, offset, offset, s)]

\* RopeBuffer::replace_range: Interval::new(range.start, range.end) carries
\* debug_assert!(start <= end), so a reversed range panics in a build with
\* debug assertions and is edited as it stands in a build without them.
replace_range(t, start, end, s, debug_assertions) ==
  IF (start > end /\ debug_assertions) \/ EditPanics(t, start, end)
  THEN [panic |-> TRUE, text |-> t]
  ELSE [panic |-> FALSE, text |-> EditText(t, start, end, s)]

\* ------------------------------------------------------------- RopeSpans
\* A Spans value: its length and its (start, end, data) entries in order.
\* Spans::subseq(iv): every entry is intersected with iv and re-based at
\* iv.start; entries that become empty are dropped.
Subseq(sp, beg, end) ==
  LET crop(e) == [start |-> Max(e.start, beg) - beg,
                  end   |-> Min(e.end, end) - beg,
                  data  |-> e.data]
      hit(e) == Max(e.start, beg) < Min(e.end, end)
      kept == SelectSeq(sp.els, hit)
  IN  [len |-> end - beg, els |-> [i \in 1..Len(kept) |-> crop(kept[i])]]

\* TreeBuilder::push of a Spans node after another one.
Concat(a, b) ==
  [len |-> a.len + b.len,
   els |-> a.els \o [i \in 1..Len(b.els) |->
                       [start |-> b.els[i].start + a.len,
                        end   |-> b.els[i].end + a.len,
                        data  |-> b.els[i].data]]]

EmptySpans(n) == [len |-> n, els |-> <<>>]

\* The delta of an insertion of s at offset into a text of base_len bytes,
\* as DeltaBuilder builds it: Copy(0, offset), Insert(s) unless s is empty,
\* Copy(offset, base_len) unless nothing is left.
InsertDelta(base_len, offset, s) ==
  (IF offset > 0 THEN <<[kind |-> "Copy", beg |-> 0, end |-> offset]>> ELSE <<>>)
  \o (IF Len(s) > 0 THEN <<[kind |-> "Insert", beg |-> 0, end |-> Len(s)]>> ELSE <<>>)
  \o (IF offset < base_len
      THEN <<[kind |-> "Copy", beg |-> offset, end |-> base_len]>> ELSE <<>>)

\* RopeSpans::update: Spans::apply_shape(delta) rebuilds the spans from the
\* delta's elements, a Copy as the sub-sequence of the old spans and an
\* Insert as that many bytes without a span.
RECURSIVE apply_shape(_, _)
apply_shape(sp, delta) ==
  IF delta = <<>> THEN EmptySpans(0)
  ELSE LET n == Len(delta)
           el == delta[n]
           piece == IF el.kind = "Copy" THEN Subseq(sp, el.beg, el.end)
                    ELSE EmptySpans(el.end)
       IN  Concat(apply_shape(sp, SubSeq(delta, 1, n - 1)), piece)

update(sp, delta) == apply_shape(sp, delta)

\* ----------------------------------------------------------- CursorRange
\* CursorRange::set_point
set_point(offset) == [anchor |-> offset, head |-> offset]

\* CursorRange::is_empty
is_empty(cr) == cr.anchor = cr.head

\* CursorRange::from / CursorRange::to
from(cr) == Min(cr.anchor, cr.head)

to(cr) == Max(cr.anchor, cr.head)

\* --------------------------------------------------- consume_transaction
\* The document state consume_transaction works on.
State(t, cr, sp) == [text_buffer |-> t, cursor_range |-> cr, spans |-> sp]

Returned(t, cr, sp, res) ==
  [text_buffer |-> t, cursor_range |-> cr, spans |-> sp, result |-> res]

\* A panic unwinds out of consume_transaction.
Panicked(st) ==
  Returned(st.text_buffer, st.cursor_range, st.spans, "panic")

\* DeleteSelection without the test for an empty range.
ConsumeDeleteSelection_NoEmptyTest(st, debug_assertions) ==
  LET anchor == st.cursor_range.anchor
      head == st.cursor_range.head
      r == replace_range(st.text_buffer, anchor, head, <<>>, debug_assertions)
  IN  IF r.panic THEN Panicked(st)
      ELSE Returned(r.text, set_point(anchor), st.spans, "Ok(true)")

\* Transaction::DeleteSelection
ConsumeDeleteSelection(st, debug_assertions) ==
  IF is_empty(st.cursor_range)
  THEN Returned(st.text_buffer, st.cursor_range, st.spans, "Ok(false)")
  ELSE LET anchor == st.cursor_range.anchor
           head == st.cursor_range.head
           r == replace_range(st.text_buffer, anchor, head, <<>>, debug_assertions)
       IN  IF r.panic THEN Panicked(st)
           ELSE Returned(r.text, set_point(anchor), st.spans, "Ok(true)")

\* DeleteBackward that steps back one byte instead of one cluster.
ConsumeDeleteBackward_OneByte(st, debug_assertions) ==
  IF is_empty(st.cursor_range)
  THEN LET head == st.cursor_range.head
           offset == IF head = 0 THEN 0 ELSE head - 1
           r == replace_range(st.text_buffer, offset, head, <<>>, debug_assertions)
       IN  IF r.panic THEN Panicked(st)
           ELSE Returned(r.text, set_point(offset), st.spans, "Ok(true)")
  ELSE Returned(st.text_buffer, st.cursor_range, st.spans, "Ok(true)")

\* Transaction::DeleteBackward
ConsumeDeleteBackward(st, debug_assertions) ==
  IF is_empty(st.cursor_range)
  THEN LET head == st.cursor_range.head
           back == nth_back(st.text_buffer, head, 0)
           offset == IF back = None THEN 0 ELSE back
           r == replace_range(st.text_buffer, offset, head, <<>>, debug_assertions)
       IN  IF back = Panic \/ r.panic THEN Panicked(st)
           ELSE Returned(r.text, set_point(offset), st.spans, "Ok(true)")
  ELSE Returned(st.text_buffer, st.cursor_range, st.spans, "Ok(true)")

\* An insert that advances the cursor by one instead of by s.len().
ConsumeInsert_AdvanceByOne(st, s) ==
  LET head == st.cursor_range.head
      w == write(st.text_buffer, head, s)
      delta == InsertDelta(Len(st.text_buffer), head, s)
  IN  IF w.panic THEN Panicked(st)
      ELSE Returned(w.text, set_point(head + 1),
                    update(st.spans, delta), "Ok(true)")

\* Transaction::InsertAtCursorHead { value: s }, Transaction::Paste
\* { clipboard: s } and, with s = "\n", Transaction::InsertNewLine.
ConsumeInsert(st, s) ==
  LET head == st.cursor_range.head
      w == write(st.text_buffer, head, s)
      delta == InsertDelta(Len(st.text_buffer), head, s)
  IN  IF w.panic THEN Panicked(st)
      ELSE Returned(w.text, set_point(head + Len(s)),
                    update(st.spans, delta), "Ok(true)")

\* A move to the left that keeps the steps it could take when it runs out.
ConsumeMoveCursorLeft_Partial(st, grapheme_count) ==
  LET offset == nth_back(st.text_buffer, st.cursor_range.head, grapheme_count)
  IN  IF offset = Panic THEN Panicked(st)
      ELSE IF offset = None
      THEN Returned(st.text_buffer, set_point(0), st.spans, "Ok(false)")
      ELSE Returned(st.text_buffer, set_point(offset), st.spans, "Ok(true)")

\* Transaction::MoveCursorLeft { grapheme_count }
ConsumeMoveCursorLeft(st, grapheme_count) ==
  LET offset == nth_back(st.text_buffer, st.cursor_range.head, grapheme_count)
  IN  IF offset = Panic THEN Panicked(st)
      ELSE IF offset = None
      THEN Returned(st.text_buffer, st.cursor_range, st.spans, "Ok(false)")
      ELSE Returned(st.text_buffer, set_point(offset), st.spans, "Ok(true)")

\* Transaction::MoveCursorRight { grapheme_count }
ConsumeMoveCursorRight(st, grapheme_count) ==
  LET offset == nth(st.text_buffer, st.cursor_range.head, grapheme_count)
  IN  IF offset = Panic THEN Panicked(st)
      ELSE IF offset = None
      THEN Returned(st.text_buffer, st.cursor_range, st.spans, "Ok(false)")
      ELSE Returned(st.text_buffer, set_point(offset), st.spans, "Ok(true)")

\* MoveCursorHeadTo that moves the head and leaves the anchor (set_head).
ConsumeMoveCursorHeadTo_SetHead(st, offset) ==
  Returned(st.text_buffer,
           [anchor |-> st.cursor_range.anchor, head |-> offset],
           st.spans, "Ok(true)")

\* Transaction::MoveCursorHeadTo { offset }
ConsumeMoveCursorHeadTo(st, offset) ==
  Returned(st.text_buffer, set_point(offset), st.spans, "Ok(true)")

\* Every other Transaction variant: `_ => Ok(false)`.
ConsumeOther(st) ==
  Returned(st.text_buffer, st.cursor_range, st.spans, "Ok(false)")

\* ------------------------------------------------------------ the machine
Current == State(text_buffer, cursor_range, spans)

Tx(kind, value, n) == [kind |-> kind, value |-> value, n |-> n]

\* The cursor ranges TextEditorContext::new is given: both ends on cluster
\* boundaries of the buffer, in either order.
InitCursorRanges(t) ==
  {[anchor |-> a, head |-> h] :
     <<a, h>> \in {x \in (0..Len(t)) \X (0..Len(t)) :
                     /\ IsGraphemeBoundary(t, x[1])
                     /\ IsGraphemeBoundary(t, x[2])}}

\* Spans that hold one annotation A over the bytes [b, e) of the buffer.
AnnotatedSpans(t) ==
  {[len |-> Len(t), els |-> <<[start |-> b, end |-> e, data |-> {"A"}]>>] :
     <<b, e>> \in {x \in (0..Len(t)) \X (0..Len(t)) : x[1] < x[2]}}

\* IntervalTree::new(): no root.
NoTree ==
  /\ tree = <<>>
  /\ entries = <<>>
  /\ updates = 0

\* The record of a UI frame (EguiTextEditor::editor_ui): the input events
\* of the frame, the transactions consumed with what they returned and what
\* the loop took them for, the value of requires_change, and the errors the
\* frame handed on to its caller.
Frame(events, consumed, requires_change, surfaced) ==
  [events |-> events, consumed |-> consumed,
   requires_change |-> requires_change, surfaced |-> surfaced]

\* No frame has run.
NoFrame == frame = Frame(<<>>, <<>>, FALSE, {})

\* No word cursor (RopeWordCursor) has been made: its position stays 0.
NoWordCursor == word_cursor = 0

\* TextEditorContext::new(text_buffer, cursor_range, RopeSpans::new(&rope))
Init ==
  /\ text_buffer \in Texts
  /\ cursor_range \in InitCursorRanges(text_buffer)
  /\ spans = EmptySpans(Len(text_buffer))
  /\ transaction = Tx("none", <<>>, 0)
  /\ result = "none"
  /\ pre = Current
  /\ NoTree
  /\ NoFrame
  /\ NoWordCursor

\* The same construction over spans that hold one annotation.
InitAnnotated ==
  /\ text_buffer \in Texts
  /\ cursor_range \in InitCursorRanges(text_buffer)
  /\ spans \in AnnotatedSpans(text_buffer)
  /\ transaction = Tx("none", <<>>, 0)
  /\ result = "none"
  /\ pre = Current
  /\ NoTree
  /\ NoFrame
  /\ NoWordCursor

\* The caller sees the returned state; after a panic there is no next call.
Apply(tx, out) ==
  /\ result # "panic"
  /\ pre' = Current
  /\ transaction' = tx
  /\ text_buffer' = out.text_buffer
  /\ cursor_range' = out.cursor_range
  /\ spans' = out.spans
  /\ result' = out.result
  /\ UNCHANGED <<tree_vars, frame, word_cursor>>

DeleteSelection ==
  \E debug_assertions \in BOOLEAN :
    Apply(Tx("DeleteSelection", <<>>, 0),
          ConsumeDeleteSelection(Current, debug_assertions))

DeleteBackward ==
  \E debug_assertions \in BOOLEAN :
    Apply(Tx("DeleteBackward", <<>>, 0),
          ConsumeDeleteBackward(Current, debug_assertions))

InsertAtCursorHead ==
  \E s \in Strings :
    /\ Len(text_buffer) + Len(s) <= MaxLen
    /\ Apply(Tx("InsertAtCursorHead", s, 0), ConsumeInsert(Current, s))

Paste ==
  \E s \in Strings :
    /\ Len(text_buffer) + Len(s) <= MaxLen
    /\ Apply(Tx("Paste", s, 0), ConsumeInsert(Current, s))

InsertNewLine ==
  /\ Len(text_buffer) + 1 <= MaxLen
  /\ Apply(Tx("InsertNewLine", CharLF, 0), ConsumeInsert(Current, CharLF))

MoveCursorLeft ==
  \E grapheme_count \in Counts :
    Apply(Tx("MoveCursorLeft", <<>>, grapheme_count),
          ConsumeMoveCursorLeft(Current, grapheme_count))

MoveCursorRight ==
  \E grapheme_count \in Counts :
    Apply(Tx("MoveCursorRight", <<>>, grapheme_count),
          ConsumeMoveCursorRight(Current, grapheme_count))

MoveCursorHeadTo ==
  \E offset \in Offsets :
    Apply(Tx("MoveCursorHeadTo", <<>>, offset),
          ConsumeMoveCursorHeadTo(Current, offset))

OtherTransaction ==
  Apply(Tx("Other", <<>>, 0), ConsumeOther(Current))

Next ==
  \/ DeleteSelection
  \/ DeleteBackward
  \/ InsertAtCursorHead
  \/ Paste
  \/ InsertNewLine
  \/ MoveCursorLeft
  \/ MoveCursorRight
  \/ MoveCursorHeadTo
  \/ OtherTransaction

Spec == Init /\ [][Next]_vars

SpecAnnotated == InitAnnotated /\ [][Next]_vars

\* ----------------------------------------------------------- vocabulary
PreText == pre.text_buffer

PreHead == pre.cursor_range.head

PreAnchor == pre.cursor_range.anchor

\* o is a byte offset of t that does not fall inside a character.
ValidOffset(t, o) == o \in 0..Len(t) /\ IsCharBoundary(t, o)

\* t without its bytes [b, e)
Without(t, b, e) == SubSeq(t, 1, b) \o SubSeq(t, e + 1, Len(t))

BoundariesBefore(t, o) == {b \in 0..(o - 1) : IsGraphemeBoundary(t, b)}

BoundariesAfter(t, o) == {b \in (o + 1)..Len(t) : IsGraphemeBoundary(t, b)}

\* The n-th cluster boundary before / after o (o itself for n = 0).
NthBefore(t, o, n) ==
  IF n = 0 THEN o
  ELSE CHOOSE b \in BoundariesBefore(t, o) :
         Cardinality({c \in BoundariesBefore(t, o) : c > b}) = n - 1

NthAfter(t, o, n) ==
  IF n = 0 THEN o
  ELSE CHOOSE b \in BoundariesAfter(t, o) :
         Cardinality({c \in BoundariesAfter(t, o) : c < b}) = n - 1

Unchanged ==
  /\ text_buffer = pre.text_buffer
  /\ cursor_range = pre.cursor_range
  /\ spans = pre.spans

\* ------------------------------------------------------------------- C1
\* C1: every transaction that changes the buffer text has applied the
\* edit's delta to the spans when it returns, so the spans measure the
\* current buffer and no stored span ends past the end of the buffer.
\* Stated for calls made with the cursor on valid offsets of the buffer.
C1_SpansFollowBuffer ==
  ( /\ text_buffer # pre.text_buffer
    /\ ValidOffset(PreText, PreHead)
    /\ ValidOffset(PreText, PreAnchor) )
  => /\ spans.len = Len(text_buffer)
     /\ \A i \in 1..Len(spans.els) : spans.els[i].end <= Len(text_buffer)

\* ------------------------------------------------------------------- C2
\* C2: InsertAtCursorHead{s} / Paste{s}, called with head on a valid offset
\* of the buffer, return Ok(true), leave the bytes before head and the
\* bytes after head as they were with s between them, and leave the cursor
\* as a point at head + len(s).
C2_InsertAtHead ==
  ( /\ transaction.kind \in {"InsertAtCursorHead", "Paste"}
    /\ ValidOffset(PreText, PreHead) )
  => LET s == transaction.value
         h == PreHead
     IN  /\ result = "Ok(true)"
         /\ Len(text_buffer) = Len(PreText) + Len(s)
         /\ \A i \in 1..h : text_buffer[i] = PreText[i]
         /\ \A i \in 1..Len(s) : text_buffer[h + i] = s[i]
         /\ \A i \in (h + 1)..Len(PreText) : text_buffer[i + Len(s)] = PreText[i]
         /\ cursor_range = [anchor |-> h + Len(s), head |-> h + Len(s)]

\* A string was inserted strictly inside a text.
C2_Witness ==
  /\ transaction.kind = "InsertAtCursorHead"
  /\ transaction.value = CharA
  /\ 0 < PreHead
  /\ PreHead < Len(PreText)
  /\ result = "Ok(true)"

\* ------------------------------------------------------------------- C3
\* The nearest cluster boundary before o.
NearestBoundaryBefore(t, o) ==
  CHOOSE b \in BoundariesBefore(t, o) :
    \A c \in BoundariesBefore(t, o) : c <= b

\* C3 (as amended): DeleteBackward on an empty cursor range whose head > 0
\* is a valid offset of the buffer returns Ok(true), removes exactly the
\* bytes [p, head), p the nearest cluster boundary before head, leaves the
\* rest of the text as it was and sets the cursor to a point at p; the bytes
\* removed never split a character.
C3_DeleteBackwardToBoundary ==
  ( /\ transaction.kind = "DeleteBackward"
    /\ is_empty(pre.cursor_range)
    /\ PreHead > 0
    /\ ValidOffset(PreText, PreHead) )
  => LET p == NearestBoundaryBefore(PreText, PreHead)
     IN  /\ result = "Ok(true)"
         /\ text_buffer = Without(PreText, p, PreHead)
         /\ cursor_range = [anchor |-> p, head |-> p]
         /\ IsCharBoundary(PreText, p)

\* C3 (as claimed): ... and the bytes removed are a whole cluster, never a
\* part of one, i.e. head is itself a cluster boundary.
C3_RemovesWholeCluster ==
  ( /\ transaction.kind = "DeleteBackward"
    /\ is_empty(pre.cursor_range)
    /\ PreHead > 0
    /\ ValidOffset(PreText, PreHead)
    /\ result = "Ok(true)" )
  => LET p == NearestBoundaryBefore(PreText, PreHead)
     IN  /\ text_buffer = Without(PreText, p, PreHead)
         /\ cursor_range = [anchor |-> p, head |-> p]
         /\ IsGraphemeBoundary(PreText, PreHead)

\* A three-byte cluster ('a' and its combining mark) was removed whole.
C3_Witness ==
  /\ transaction.kind = "DeleteBackward"
  /\ is_empty(pre.cursor_range)
  /\ IsGraphemeBoundary(PreText, PreHead)
  /\ Len(PreText) - Len(text_buffer) = 3
  /\ result = "Ok(true)"

\* ------------------------------------------------------------------- C4
\* C4: DeleteSelection on a non-empty cursor range with both ends on valid
\* offsets, whatever its orientation, returns with the bytes [from, to)
\* removed and the cursor a point at from.
C4_DeleteSelectionAnyOrientation ==
  ( /\ transaction.kind = "DeleteSelection"
    /\ ~is_empty(pre.cursor_range)
    /\ ValidOffset(PreText, PreHead)
    /\ ValidOffset(PreText, PreAnchor) )
  => /\ text_buffer = Without(PreText, from(pre.cursor_range), to(pre.cursor_range))
     /\ cursor_range = [anchor |-> from(pre.cursor_range),
                        head   |-> from(pre.cursor_range)]

\* ------------------------------------------------------------------- C5
\* C5: MoveCursorLeft{n} / MoveCursorRight{n} from a head on a cluster
\* boundary, when at least n cluster boundaries exist in that direction,
\* set the cursor to a point exactly n clusters before / after the previous
\* head (n = 0 does not move).
C5_MovesExactlyN ==
  /\ ( /\ transaction.kind = "MoveCursorLeft"
       /\ PreHead <= Len(PreText)
       /\ IsGraphemeBoundary(PreText, PreHead)
       /\ Cardinality(BoundariesBefore(PreText, PreHead)) >= transaction.n )
     => LET o == NthBefore(PreText, PreHead, transaction.n)
        IN  cursor_range = [anchor |-> o, head |-> o]
  /\ ( /\ transaction.kind = "MoveCursorRight"
       /\ PreHead <= Len(PreText)
       /\ IsGraphemeBoundary(PreText, PreHead)
       /\ Cardinality(BoundariesAfter(PreText, PreHead)) >= transaction.n )
     => LET o == NthAfter(PreText, PreHead, transaction.n)
        IN  cursor_range = [anchor |-> o, head |-> o]

\* ------------------------------------------------------------------- C6
\* C6: a MoveCursorLeft{n} / MoveCursorRight{n} from a head inside the
\* buffer that runs out of cluster boundaries before its last step returns
\* Ok(false), and a move that returns Ok(false) leaves buffer, cursor range
\* and spans exactly as they were.
C6_FailedMoveLeavesState ==
  /\ ( /\ transaction.kind = "MoveCursorLeft"
       /\ PreHead <= Len(PreText)
       /\ Cardinality(BoundariesBefore(PreText, PreHead)) <= transaction.n )
     => (result = "Ok(false)" /\ Unchanged)
  /\ ( /\ transaction.kind = "MoveCursorRight"
       /\ PreHead <= Len(PreText)
       /\ Cardinality(BoundariesAfter(PreText, PreHead)) <= transaction.n )
     => (result = "Ok(false)" /\ Unchanged)
  /\ ( /\ transaction.kind \in {"MoveCursorLeft", "MoveCursorRight"}
       /\ result = "Ok(false)" )
     => Unchanged

\* A move to the left took at least one step and then ran out of text.
C6_Witness ==
  /\ transaction.kind = "MoveCursorLeft"
  /\ transaction.n >= 1
  /\ PreHead > 0
  /\ PreHead <= Len(PreText)
  /\ result = "Ok(false)"

\* ------------------------------------------------------------------- C7
\* C7: DeleteBackward applied to a non-empty (forward) cursor range leaves
\* the buffer text, the cursor and the result that DeleteSelection produces
\* from the same state.
C7_DeleteBackwardAsDeleteSelection ==
  ( /\ transaction.kind = "DeleteBackward"
    /\ PreAnchor < PreHead
    /\ ValidOffset(PreText, PreHead)
    /\ ValidOffset(PreText, PreAnchor) )
  => \E debug_assertions \in BOOLEAN :
       LET sel == ConsumeDeleteSelection(pre, debug_assertions)
       IN  /\ text_buffer = sel.text_buffer
           /\ cursor_range = sel.cursor_range
           /\ result = sel.result

\* ------------------------------------------------------------------- C8
\* C8: Ok(true) is returned only if the buffer text or the cursor range
\* differs from before the call, and Ok(false) only if buffer, cursor range
\* and spans are all unchanged.
C8_ResultTellsChange ==
  /\ result = "Ok(true)"
       => (text_buffer # pre.text_buffer \/ cursor_range # pre.cursor_range)
  /\ result = "Ok(false)" => Unchanged

\* ------------------------------------------------------------------- C9
\* C9: consume_transaction never panics, whatever the transaction, in any
\* state reached from a cursor inside the buffer.  Stated for the calls made
\* with a point cursor that lies inside the buffer.
C9_NeverPanics ==
  ( /\ is_empty(pre.cursor_range)
    /\ PreHead <= Len(PreText) )
  => result # "panic"

\* ------------------------------------------------------------------ C10
\* C10: anchor and head are always offsets of the current buffer
\* (0 <= anchor, head <= len), and a MoveCursorHeadTo{offset} whose offset
\* is not a valid offset of the text does not move the cursor.
C10_CursorInsideBuffer ==
  /\ result # "panic"
       => /\ cursor_range.anchor <= Len(text_buffer)
          /\ cursor_range.head <= Len(text_buffer)
  /\ ( /\ transaction.kind = "MoveCursorHeadTo"
       /\ ~ValidOffset(PreText, transaction.n) )
     => cursor_range = pre.cursor_range

\* ------------------------------------------------------------------ C11
\* The offset a span start / a span end has after n bytes are inserted at h:
\* a boundary before the insertion point stays, one after it moves by n.
ShiftedStart(b, h, n) == IF b < h THEN b ELSE b + n

ShiftedEnd(b, h, n) == IF b <= h THEN b ELSE b + n

\* C11: an insert made with head on a valid offset, over spans that measure
\* the buffer, re-targets every stored span through the edit: each span is
\* still one span with its data, a boundary before the insertion point is
\* unchanged and a boundary after it is shifted by the inserted length.
C11_SpansRetargeted ==
  ( /\ transaction.kind \in {"InsertAtCursorHead", "Paste", "InsertNewLine"}
    /\ ValidOffset(PreText, PreHead)
    /\ pre.spans.len = Len(PreText)
    /\ result = "Ok(true)" )
  => LET n == Len(transaction.value)
         old == pre.spans.els
     IN  spans.els =
           [i \in 1..Len(old) |->
              [start |-> ShiftedStart(old[i].start, PreHead, n),
               end   |-> ShiftedEnd(old[i].end, PreHead, n),
               data  |-> old[i].data]]

\* ======================================================= RopeSpans::add
\* Attributes are sets of attribute names; `a.clone() + b.clone()` joins the
\* attributes of the two spans.
AttributesAdd(a, b) == a \cup b

AttributeSets == {{"A"}, {"B"}}

\* xi_rope Spans::merge(other, f) with the closure of RopeSpans::add
\* (f(a, Some(b)) = a + b, f(a, None) = a): both span lists are walked in
\* order; spans that do not intersect are copied, the leading one first; of
\* two spans that intersect, the part of the leading one before the other is
\* emitted with its own data, the intersection with the sum of the data, and
\* what is left of the longer one is carried into the next round.
RECURSIVE MergeEls(_, _)
MergeEls(red, blue) ==
  IF red = <<>> THEN blue
  ELSE IF blue = <<>> THEN red
  ELSE
    LET r == Head(red)
        b == Head(blue)
    IN  IF Max(r.start, b.start) >= Min(r.end, b.end)
        THEN IF r.end <= b.start
             THEN <<r>> \o MergeEls(Tail(red), blue)
             ELSE <<b>> \o MergeEls(red, Tail(blue))
        ELSE
          LET lead == IF r.start < b.start
                      THEN <<[start |-> r.start, end |-> b.start, data |-> r.data]>>
                      ELSE IF b.start < r.start
                      THEN <<[start |-> b.start, end |-> r.start, data |-> b.data]>>
                      ELSE <<>>
              ivs == Max(r.start, b.start)
              ive == Min(r.end, b.end)
              both == [start |-> ivs, end |-> ive,
                       data |-> AttributesAdd(r.data, b.data)]
              red_left == IF r.end <= ive THEN Tail(red)
                          ELSE <<[start |-> ive, end |-> r.end, data |-> r.data]>>
                               \o Tail(red)
              blue_left == IF b.end <= ive THEN Tail(blue)
                           ELSE <<[start |-> ive, end |-> b.end, data |-> b.data]>>
                                \o Tail(blue)
          IN  lead \o <<both>> \o MergeEls(red_left, blue_left)

\* Spans::merge starts with assert_eq!(self.len(), other.len()).
merge(sp, other) ==
  IF sp.len # other.len
  THEN [panic |-> TRUE, spans |-> sp]
  ELSE [panic |-> FALSE,
        spans |-> [len |-> sp.len, els |-> MergeEls(sp.els, other.els)]]

\* RopeSpans::add(range, data): the added annotation is built as a Spans of
\* length range.len() that holds the one span range.start..range.end, and
\* is merged into the stored spans.
add(sp, range, data) ==
  LET added_annotations ==
        [len |-> range.end - range.start,
         els |-> <<[start |-> range.start, end |-> range.end, data |-> data]>>]
  IN  merge(sp, added_annotations)

\* The non-empty ranges an annotation may cover.
Ranges ==
  {[start |-> b, end |-> e] : <<b, e>> \in {x \in Offsets \X Offsets : x[1] < x[2]}}

AddCall(range, data) == [kind |-> "add", range |-> range, data |-> data]

\* RopeSpans::new(&buf) over the buffer the application starts with.
InitSpans ==
  /\ text_buffer \in Texts
  /\ cursor_range = set_point(0)
  /\ spans = EmptySpans(Len(text_buffer))
  /\ transaction = Tx("none", <<>>, 0)
  /\ result = "none"
  /\ pre = Current
  /\ NoTree
  /\ NoFrame
  /\ NoWordCursor

\* A call of RopeSpans::add; a panic of merge unwinds out of it.
Annotate ==
  \E range \in Ranges, data \in AttributeSets :
    LET m == add(spans, range, data)
    IN  /\ result # "panic"
        /\ pre' = Current
        /\ transaction' = AddCall(range, data)
        /\ spans' = m.spans
        /\ result' = IF m.panic THEN "panic" ELSE "()"
        /\ UNCHANGED <<text_buffer, cursor_range>>
        /\ UNCHANGED <<tree_vars, frame, word_cursor>>

NextSpans == Annotate

SpecSpans == InitSpans /\ [][NextSpans]_vars

\* ------------------------------------------------------------------ C12
\* The attributes the spans hold at byte o.
AttributesAt(sp, o) ==
  UNION {sp.els[i].data : i \in {j \in 1..Len(sp.els) :
                                   sp.els[j].start <= o /\ o < sp.els[j].end}}

\* C12: annotating a non-empty range that lies inside the buffer, over
\* spans that measure the buffer, returns and loses no attribute: every byte
\* of the range then carries the added attribute next to the ones it had
\* (both A and B where the ranges of A and B overlap), every other byte
\* carries what it carried before, and the segments iterated do not overlap.
C12_AnnotateKeepsAttributes ==
  ( /\ transaction.kind = "add"
    /\ transaction.range.start < transaction.range.end
    /\ transaction.range.end <= Len(text_buffer)
    /\ pre.spans.len = Len(text_buffer) )
  => /\ result = "()"
     /\ \A o \in 0..(Len(text_buffer) - 1) :
          AttributesAt(spans, o) =
            AttributesAt(pre.spans, o)
              \cup (IF transaction.range.start <= o /\ o < transaction.range.end
                    THEN transaction.data ELSE {})
     /\ \A i \in 1..(Len(spans.els) - 1) :
          spans.els[i].end <= spans.els[i + 1].start

\* ========================================================= IntervalTree
\* span/augmented_avl_tree.rs.  An Option<Box<Node>> is a sequence of no
\* node or of one node; a node is a record of its interval, value, max,
\* height, left and right.
MaxPoint == 2

MaxEntries == 4

MaxUpdates == 1

Points == 0..MaxPoint

\* Interval::new: the ranges with end >= start, zero-width ones included.
Intervals ==
  {[start |-> b, end |-> e] : <<b, e>> \in {x \in Points \X Points : x[1] <= x[2]}}

\* Node::new
NewNode(interval, data) ==
  [interval |-> interval, value |-> data, max |-> interval.end, height |-> 1,
   left |-> <<>>, right |-> <<>>]

\* `.as_ref().map_or(0, |n| n.height)`
HeightOf(son) == IF son = <<>> THEN 0 ELSE son[1].height

\* Node::update_height
update_height(self) ==
  [self EXCEPT !.height = 1 + Max(HeightOf(self.left), HeightOf(self.right))]

\* update_max that does not look at the left son.
update_max_RightOnly(self) ==
  LET own == self.interval.end
      with_right == IF self.right # <<>> /\ own < self.right[1].max
                    THEN self.right[1].max ELSE own
  IN  [self EXCEPT !.max = with_right]

\* Node::update_max
update_max(self) ==
  LET own == self.interval.end
      with_left == IF self.left # <<>> /\ own < self.left[1].max
                   THEN self.left[1].max ELSE own
      with_right == IF self.right # <<>> /\ with_left < self.right[1].max
                    THEN self.right[1].max ELSE with_left
  IN  [self EXCEPT !.max = with_right]

\* rotate_left with a swap that exchanges the intervals and leaves the
\* values where they are.
rotate_left_KeepValue(self) ==
  LET new_root == self.right[1]
      t1 == self.left
      t2 == new_root.left
      t3 == new_root.right
      moved == update_max(update_height(
                 [new_root EXCEPT !.interval = self.interval,
                                  !.left = t1,
                                  !.right = t2]))
  IN  update_max(update_height(
        [self EXCEPT !.interval = new_root.interval,
                     !.right = t3,
                     !.left = <<moved>>]))

\* Node::rotate_left (swap_interval_data exchanges value and interval of
\* the node and its right son, which becomes the left son).
rotate_left(self) ==
  LET new_root == self.right[1]
      t1 == self.left
      t2 == new_root.left
      t3 == new_root.right
      moved == update_max(update_height(
                 [new_root EXCEPT !.interval = self.interval,
                                  !.value = self.value,
                                  !.left = t1,
                                  !.right = t2]))
  IN  update_max(update_height(
        [self EXCEPT !.interval = new_root.interval,
                     !.value = new_root.value,
                     !.right = t3,
                     !.left = <<moved>>]))

\* Node::rotate_right
rotate_right(self) ==
  LET new_root == self.left[1]
      t1 == new_root.left
      t2 == new_root.right
      t3 == self.right
      moved == update_max(update_height(
                 [new_root EXCEPT !.interval = self.interval,
                                  !.value = self.value,
                                  !.left = t2,
                                  !.right = t3]))
  IN  update_max(update_height(
        [self EXCEPT !.interval = new_root.interval,
                     !.value = new_root.value,
                     !.left = t1,
                     !.right = <<moved>>]))

\* repair that refreshes height and max but never rotates.
repair_NoRotation(self) == update_max(update_height(self))

\* Node::repair
repair(self) ==
  LET left_h == HeightOf(self.left)
      right_h == HeightOf(self.right)
  IN  IF left_h - right_h \in -1..1
      THEN update_max(update_height(self))
      ELSE IF right_h > left_h
      THEN LET right == self.right[1]
               turned == IF HeightOf(right.left) > HeightOf(right.right)
                         THEN rotate_right(right) ELSE right
           IN  rotate_left([self EXCEPT !.right = <<turned>>])
      ELSE LET left == self.left[1]
               turned == IF HeightOf(left.right) > HeightOf(left.left)
                         THEN rotate_left(left) ELSE left
           IN  rotate_right([self EXCEPT !.left = <<turned>>])

\* Node::insert
RECURSIVE node_insert(_, _, _)
node_insert(self, interval, data) ==
  LET placed ==
        IF interval.start <= self.interval.start
        THEN [self EXCEPT !.left =
                IF self.left # <<>>
                THEN <<node_insert(self.left[1], interval, data)>>
                ELSE <<NewNode(interval, data)>>]
        ELSE [self EXCEPT !.right =
                IF self.right # <<>>
                THEN <<node_insert(self.right[1], interval, data)>>
                ELSE <<NewNode(interval, data)>>]
  IN  repair(placed)

\* IntervalTree::insert
insert(root, interval, data) ==
  IF root # <<>> THEN <<node_insert(root[1], interval, data)>>
  ELSE <<NewNode(interval, data)>>

\* intersect without the two tests for a positive width.
intersect_AnyWidth(range_1, range_2) ==
  /\ range_1.end > range_2.start
  /\ range_1.start < range_2.end

\* fn intersect
intersect(range_1, range_2) ==
  /\ range_1.start < range_1.end
  /\ range_2.start < range_2.end
  /\ range_1.end > range_2.start
  /\ range_1.start < range_2.end

Entry(node) == [data |-> node.value, interval |-> node.interval]

\* An iterator that prunes on the end of the node's own interval instead
\* of the max of its subtree.
RECURSIVE next_OwnEnd(_, _)
next_OwnEnd(nodes, interval) ==
  IF nodes = <<>> THEN <<>>
  ELSE
    LET candidate == nodes[Len(nodes)]
        popped == SubSeq(nodes, 1, Len(nodes) - 1)
    IN  IF interval.start < candidate.interval.end
        THEN IF interval.end > candidate.interval.start
             THEN IF intersect(interval, candidate.interval)
                  THEN <<Entry(candidate)>>
                       \o next_OwnEnd(popped \o candidate.left \o candidate.right,
                                      interval)
                  ELSE next_OwnEnd(popped \o candidate.left \o candidate.right,
                                   interval)
             ELSE next_OwnEnd(popped \o candidate.left, interval)
        ELSE next_OwnEnd(popped, interval)

\* IntervalTreeIterator::next, called until it returns None: the entries it
\* yields, in order.  nodes is the stack of the iterator.
RECURSIVE next(_, _)
next(nodes, interval) ==
  IF nodes = <<>> THEN <<>>
  ELSE
    LET candidate == nodes[Len(nodes)]
        popped == SubSeq(nodes, 1, Len(nodes) - 1)
    IN  IF interval.start < candidate.max
        THEN IF interval.end > candidate.interval.start
             THEN IF intersect(interval, candidate.interval)
                  THEN <<Entry(candidate)>>
                       \o next(popped \o candidate.left \o candidate.right, interval)
                  ELSE next(popped \o candidate.left \o candidate.right, interval)
             ELSE next(popped \o candidate.left, interval)
        ELSE next(popped, interval)

\* IntervalTree::find(interval).collect()
find(root, interval) == next(root, interval)

\* update_nodes, the helper of IntervalTree::update_interval
RECURSIVE update_nodes(_, _, _)
update_nodes(node, old_interval, new_interval) ==
  LET here == IF node.interval = old_interval
              THEN repair(update_max([node EXCEPT !.interval = new_interval]))
              ELSE node
      with_left ==
        IF here.left # <<>> /\ here.left[1].max >= old_interval.start
        THEN [here EXCEPT !.left =
                <<update_nodes(here.left[1], old_interval, new_interval)>>]
        ELSE here
  IN  IF with_left.right # <<>>
         /\ with_left.right[1].interval.start <= old_interval.end
      THEN [with_left EXCEPT !.right =
              <<update_nodes(with_left.right[1], old_interval, new_interval)>>]
      ELSE with_left

\* IntervalTree::update_interval
update_interval(root, old_interval, new_interval) ==
  IF root # <<>> THEN <<update_nodes(root[1], old_interval, new_interval)>>
  ELSE root

\* IntervalTree::new() next to an editing context that is not touched.
InitTree ==
  /\ NoTree
  /\ NoFrame
  /\ NoWordCursor
  /\ text_buffer = <<>>
  /\ cursor_range = set_point(0)
  /\ spans = EmptySpans(0)
  /\ transaction = Tx("none", <<>>, 0)
  /\ result = "none"
  /\ pre = Current

\* tree.insert(interval, data), the data being the number of the entry.
Insert ==
  \E interval \in Intervals :
    /\ Len(entries) < MaxEntries
    /\ tree' = insert(tree, interval, Len(entries) + 1)
    /\ entries' = Append(entries, interval)
    /\ transaction' = [kind |-> "insert", interval |-> interval]
    /\ result' = "()"
    /\ UNCHANGED <<updates, ctx_vars, frame, word_cursor>>

\* tree.find(interval).collect(); a find that follows a find is left out,
\* the tree being the one the first find looked at.
Find ==
  \E interval \in Intervals :
    /\ transaction.kind # "find"
    /\ transaction' = [kind |-> "find", interval |-> interval]
    /\ result' = find(tree, interval)
    /\ UNCHANGED <<tree_vars, ctx_vars, frame, word_cursor>>

\* tree.update_interval(old_interval, new_interval); entries records what
\* the call is to do to the stored intervals.
UpdateInterval ==
  \E old_interval \in Intervals, new_interval \in Intervals :
    /\ updates < MaxUpdates
    /\ tree' = update_interval(tree, old_interval, new_interval)
    /\ entries' = [i \in 1..Len(entries) |->
                     IF entries[i] = old_interval THEN new_interval
                     ELSE entries[i]]
    /\ updates' = updates + 1
    /\ transaction' = [kind |-> "update_interval",
                       old_interval |-> old_interval,
                       new_interval |-> new_interval]
    /\ result' = "()"
    /\ UNCHANGED <<ctx_vars, frame, word_cursor>>

NextTree ==
  \/ Insert
  \/ Find

SpecTree == InitTree /\ [][NextTree]_vars

NextTreeUpdate ==
  \/ Insert
  \/ Find
  \/ UpdateInterval

SpecTreeUpdate == InitTree /\ [][NextTreeUpdate]_vars

\* ------------------------------------------------- tree vocabulary
\* The nodes of a subtree.
RECURSIVE NodesOf(_)
NodesOf(son) ==
  IF son = <<>> THEN {}
  ELSE {son[1]} \cup NodesOf(son[1].left) \cup NodesOf(son[1].right)

\* The entries the tree holds.
EntriesOf(son) == {Entry(n) : n \in NodesOf(son)}

\* The entries handed to the tree, entry i with the data i.
Stored == {[data |-> i, interval |-> entries[i]] : i \in 1..Len(entries)}

AsSet(seq) == {seq[i] : i \in 1..Len(seq)}

\* The number of nodes on the longest path down from son.
RECURSIVE TrueHeight(_)
TrueHeight(son) ==
  IF son = <<>> THEN 0
  ELSE 1 + Max(TrueHeight(son[1].left), TrueHeight(son[1].right))

\* The greatest interval end among a non-empty set of nodes.
GreatestEnd(nodes) ==
  CHOOSE m \in {n.interval.end : n \in nodes} :
    \A n \in nodes : n.interval.end <= m

MaxIsGreatestEnd(son) ==
  \A n \in NodesOf(son) : n.max = GreatestEnd(NodesOf(<<n>>))

StartsOrdered(son) ==
  \A n \in NodesOf(son) :
    /\ \A l \in NodesOf(n.left) : l.interval.start <= n.interval.start
    /\ \A r \in NodesOf(n.right) : n.interval.start <= r.interval.start

\* The half-open test the claim writes out.
Overlaps(e, q) == e.start < q.end /\ q.start < e.end

\* ------------------------------------------------------------------ C13
\* C13 (as amended): after any sequence of inserts, find(q) yields exactly
\* the stored entries whose interval has a byte in common with q, i.e. both
\* are of positive width and entry.start < q.end and q.start < entry.end,
\* each stored entry once (entries that share an interval are all yielded).
C13_FindYieldsIntersecting ==
  transaction.kind = "find"
  => /\ AsSet(result) =
          {e \in Stored :
             /\ e.interval.start < e.interval.end
             /\ transaction.interval.start < transaction.interval.end
             /\ Overlaps(e.interval, transaction.interval)}
     /\ Cardinality(AsSet(result)) = Len(result)

\* C13 (as claimed): find(q) yields exactly the stored entries with
\* entry.start < q.end and q.start < entry.end, each once.
C13_FindYieldsOverlapping ==
  transaction.kind = "find"
  => /\ AsSet(result) =
          {e \in Stored : Overlaps(e.interval, transaction.interval)}
     /\ Cardinality(AsSet(result)) = Len(result)

\* A find yielded two entries that share an interval and left out another
\* stored entry.
C13_Witness ==
  /\ transaction.kind = "find"
  /\ Len(result) = 2
  /\ result[1].interval = result[2].interval
  /\ Len(entries) >= 3

\* ------------------------------------------------------------------ C14
\* C14: after every insert, in any insertion order, every node has
\* |height(left) - height(right)| <= 1 and a stored height equal to
\* 1 + max(height(left), height(right)).
C14_HeightBalanced ==
  transaction.kind = "insert"
  => \A n \in NodesOf(tree) :
       /\ TrueHeight(n.left) - TrueHeight(n.right) \in -1..1
       /\ n.height = 1 + Max(TrueHeight(n.left), TrueHeight(n.right))

\* An insert made the tree three levels high after a rotation had moved the
\* first entry away from the root.
C14_Witness ==
  /\ transaction.kind = "insert"
  /\ tree # <<>>
  /\ tree[1].height = 3
  /\ tree[1].value # 1

\* ------------------------------------------------------------------ C15
\* C15: after every insert, in any insertion order, every node's max is the
\* greatest interval end stored in its subtree, and every start in its left
\* subtree <= its start <= every start in its right subtree.
C15_MaxAndOrder ==
  transaction.kind = "insert"
  => /\ MaxIsGreatestEnd(tree)
     /\ StartsOrdered(tree)

\* After a rotation the root takes its max from its left subtree.
C15_Witness ==
  /\ transaction.kind = "insert"
  /\ tree # <<>>
  /\ tree[1].value # 1
  /\ tree[1].left # <<>>
  /\ tree[1].right # <<>>
  /\ tree[1].max = tree[1].left[1].max
  /\ tree[1].max > tree[1].interval.end
  /\ tree[1].max > tree[1].right[1].max

\* ------------------------------------------------------------------ C16
\* C16: update_interval(old, new), on any tree built by inserts, changes the
\* interval of every stored entry whose interval equals old to new and keeps
\* that entry's data, wherever the entry sits in the tree, and leaves every
\* other entry as it was: the tree then holds exactly the entries recorded.
C16_UpdateReachesEveryEntry ==
  ( /\ transaction.kind = "update_interval"
    /\ updates = 1 )
  => EntriesOf(tree) = Stored

\* ------------------------------------------------------------------ C17
\* C17: after update_interval on a tree built by inserts, every node's max
\* is the greatest end in its subtree, the start ordering holds, and find(q)
\* yields exactly the entries of the tree that intersect q, for every q.
C17_PropertiesAfterUpdate ==
  ( /\ transaction.kind = "update_interval"
    /\ updates = 1 )
  => /\ MaxIsGreatestEnd(tree)
     /\ StartsOrdered(tree)
     /\ \A q \in Intervals :
          AsSet(find(tree, q)) =
            {e \in EntriesOf(tree) : intersect(e.interval, q)}

\* ============================================== EguiTextEditor::editor_ui
\* The per-frame event loop of the editor widget (view.rs).  editor_ui is
\* generic in the buffer, so what consume_transaction returns for an event's
\* transaction is an input of the frame: Ok(true), Ok(false) or Err.
MaxEvents == 3

\* egui events: one that maps to no transaction and three that map to one.
Events == {"Copy", "Backspace", "Paste", "Text"}

\* egui_transact_fn, as emit_transaction calls it.
egui_transact_fn(event) ==
  CASE event = "Copy" -> "None"
    [] event = "Backspace" -> "DeleteBackward"
    [] event = "Paste" -> "Paste"
    [] event = "Text" -> "InsertAtCursorHead"

Outcomes == {"Ok(true)", "Ok(false)", "Err"}

\* An input event together with what consuming its transaction returns.
FrameInputs ==
  {[event |-> e, returns |-> r] :
     <<e, r>> \in {x \in Events \X (Outcomes \cup {"-"}) :
                     (egui_transact_fn(x[1]) = "None") <=> (x[2] = "-")}}

RECURSIVE InputsUpTo(_)
InputsUpTo(n) ==
  IF n = 0 THEN {<<>>}
  ELSE LET shorter == InputsUpTo(n - 1)
       IN  shorter \cup {Append(q, i) : q \in shorter, i \in FrameInputs}

\* Result<bool, _>::unwrap_or(true)
unwrap_or_true(returned) ==
  CASE returned = "Ok(true)" -> TRUE
    [] returned = "Ok(false)" -> FALSE
    [] returned = "Err" -> TRUE

\* `events.iter().any(|event| emit_transaction(event).map_or(false, |t|
\* consume_transaction(t).unwrap_or(true)))` from event i on: an event
\* without a transaction counts as false, a transaction is consumed and
\* counts as what unwrap_or(true) makes of its result, and the first true
\* ends the iteration.  editor_ui returns an egui::Response and hands no
\* error on.
RECURSIVE any(_, _, _)
any(events, i, consumed) ==
  IF i > Len(events) THEN Frame(events, consumed, FALSE, {})
  ELSE
    LET t == egui_transact_fn(events[i].event)
    IN  IF t = "None" THEN any(events, i + 1, consumed)
        ELSE
          LET returned == events[i].returns
              taken == unwrap_or_true(returned)
              log == Append(consumed,
                            [index |-> i, transaction |-> t,
                             returned |-> returned, taken_as_change |-> taken])
          IN  IF taken THEN Frame(events, log, TRUE, {})
              ELSE any(events, i + 1, log)

\* The application starts with no frame run.
InitFrame ==
  /\ NoFrame
  /\ NoTree
  /\ NoWordCursor
  /\ text_buffer = <<>>
  /\ cursor_range = set_point(0)
  /\ spans = EmptySpans(0)
  /\ transaction = Tx("none", <<>>, 0)
  /\ result = "none"
  /\ pre = Current

\* One call of editor_ui with the input events of the frame.
EditorUi ==
  \E events \in InputsUpTo(MaxEvents) :
    /\ frame' = any(events, 1, <<>>)
    /\ UNCHANGED <<ctx_vars, tree_vars, transaction, result, word_cursor>>

NextFrame == EditorUi

SpecFrame == InitFrame /\ [][NextFrame]_vars

WordChars == {"a", " ", ".", "CR", "LF"}

RECURSIVE WordTextsUpTo(_)
WordTextsUpTo(n) ==
  IF n = 0 THEN {<<>>}
  ELSE LET shorter == WordTextsUpTo(n - 1)
       IN  shorter \cup {Append(t, c) : t \in shorter, c \in WordChars}

WordTexts == WordTextsUpTo(MaxLen)

Classes == {"Cr", "Lf", "Space", "Punctuation", "Other"}

\* CharClassification::new
CharClassification(codepoint) ==
  CASE codepoint = "CR" -> "Cr"
    [] codepoint = "LF" -> "Lf"
    [] OTHER -> "Other"

\* classify_boundary without the arm (Other, Punctuation) => Both.
classify_boundary_OneSided(prev, next_class) ==
  CASE prev = "Lf" /\ next_class = "Lf" -> "Start"
    [] prev = "Lf" /\ next_class = "Space" -> "Interior"
    [] prev = "Cr" /\ next_class = "Lf" -> "Interior"
    [] prev = "Space" /\ next_class = "Lf" -> "Interior"
    [] prev = "Space" /\ next_class = "Cr" -> "Interior"
    [] prev = "Space" /\ next_class = "Space" -> "Interior"
    [] OTHER ->
         IF next_class = "Space" THEN "End"
         ELSE IF prev = "Space" THEN "Start"
         ELSE IF prev = "Lf" THEN "Start"
         ELSE IF next_class = "Cr" THEN "End"
         ELSE IF next_class = "Lf" THEN "End"
         ELSE IF prev = "Punctuation" /\ next_class = "Other" THEN "Both"
         ELSE "Interior"

\* classify_boundary (WordBoundary::new): the arms of the match in order.
classify_boundary(prev, next_class) ==
  CASE prev = "Lf" /\ next_class = "Lf" -> "Start"
    [] prev = "Lf" /\ next_class = "Space" -> "Interior"
    [] prev = "Cr" /\ next_class = "Lf" -> "Interior"
    [] prev = "Space" /\ next_class = "Lf" -> "Interior"
    [] prev = "Space" /\ next_class = "Cr" -> "Interior"
    [] prev = "Space" /\ next_class = "Space" -> "Interior"
    [] OTHER ->
         IF next_class = "Space" THEN "End"
         ELSE IF prev = "Space" THEN "Start"
         ELSE IF prev = "Lf" THEN "Start"
         ELSE IF next_class = "Cr" THEN "End"
         ELSE IF next_class = "Lf" THEN "End"
         ELSE IF prev = "Punctuation" /\ next_class = "Other" THEN "Both"
         ELSE IF prev = "Other" /\ next_class = "Punctuation" THEN "Both"
         ELSE "Interior"

\* WordBoundary::is_start
is_start(boundary) == boundary = "Start" \/ boundary = "Both"

\* The loop of RopeWordCursor::next over the classes of the characters:
\* candidate moves on until the boundary before the next character is a
\* word start or the text ends.
RECURSIVE ScanForward(_, _)
ScanForward(classes, candidate) ==
  IF candidate >= Len(classes) THEN candidate
  ELSE IF is_start(classify_boundary(classes[candidate], classes[candidate + 1]))
  THEN candidate
  ELSE ScanForward(classes, candidate + 1)

\* RopeWordCursor::next (Some(candidate) or None)
word_next(classes, pos) ==
  IF pos >= Len(classes) THEN None ELSE ScanForward(classes, pos + 1)

\* The loop of RopeWordCursor::next_back.
RECURSIVE ScanBackward(_, _)
ScanBackward(classes, candidate) ==
  IF candidate = 0 THEN 0
  ELSE IF is_start(classify_boundary(classes[candidate], classes[candidate + 1]))
  THEN candidate
  ELSE ScanBackward(classes, candidate - 1)

\* RopeWordCursor::next_back
word_next_back(classes, pos) ==
  IF pos = 0 THEN None ELSE ScanBackward(classes, pos - 1)

\* The classes CharClassification::new gives the characters of a text.
ClassesOf(text) == [i \in 1..Len(text) |-> CharClassification(text[i])]

\* RopeWordCursor::new(buffer, pos) over a buffer of the five characters.
InitWord ==
  /\ text_buffer \in WordTexts
  /\ word_cursor \in 0..Len(text_buffer)
  /\ cursor_range = set_point(0)
  /\ spans = EmptySpans(Len(text_buffer))
  /\ transaction = Tx("none", <<>>, 0)
  /\ result = "none"
  /\ pre = Current
  /\ NoTree
  /\ NoFrame

\* CharClassification::new(codepoint)
Classify ==
  \E codepoint \in WordChars :
    /\ transaction' = [kind |-> "classify", codepoint |-> codepoint]
    /\ result' = CharClassification(codepoint)
    /\ UNCHANGED <<ctx_vars, tree_vars, frame, word_cursor>>

\* classify_boundary(prev, next_class)
ClassifyBoundary ==
  \E prev_class \in Classes, next_class \in Classes :
    /\ transaction' = [kind |-> "classify_boundary",
                       prev_class |-> prev_class, next_class |-> next_class]
    /\ result' = classify_boundary(prev_class, next_class)
    /\ UNCHANGED <<ctx_vars, tree_vars, frame, word_cursor>>

\* One call of next / next_back on the word cursor; Some(offset) moves it.
WordNext ==
  LET offset == word_next(ClassesOf(text_buffer), word_cursor)
  IN  /\ transaction' = [kind |-> "next", pos |-> word_cursor]
      /\ result' = offset
      /\ word_cursor' = IF offset = None THEN word_cursor ELSE offset
      /\ UNCHANGED <<ctx_vars, tree_vars, frame>>

WordNextBack ==
  LET offset == word_next_back(ClassesOf(text_buffer), word_cursor)
  IN  /\ transaction' = [kind |-> "next_back", pos |-> word_cursor]
      /\ result' = offset
      /\ word_cursor' = IF offset = None THEN word_cursor ELSE offset
      /\ UNCHANGED <<ctx_vars, tree_vars, frame>>

NextWord ==
  \/ Classify
  \/ ClassifyBoundary
  \/ WordNext
  \/ WordNextBack

SpecWord == InitWord /\ [][NextWord]_vars

\* ------------------------------------------------------------------ C19
\* The class the claim gives each character.
ClaimedClass(codepoint) ==
  CASE codepoint = "CR" -> "Cr"
    [] codepoint = "LF" -> "Lf"
    [] codepoint = " " -> "Space"
    [] codepoint = "." -> "Punctuation"
    [] OTHER -> "Other"

ClaimedClassesOf(text) == [i \in 1..Len(text) |-> ClaimedClass(text[i])]

\* C19: classify maps '\r' to Cr, '\n' to Lf, a whitespace character to
\* Space, a punctuation character to Punctuation and every other character
\* to Other, so that next() / next_back() of the word cursor stop where the
\* word starts of the text are under that classification.
C19_ClassifyByKind ==
  /\ transaction.kind = "classify"
       => result = ClaimedClass(transaction.codepoint)
  /\ transaction.kind = "next"
       => result = word_next(ClaimedClassesOf(text_buffer), transaction.pos)
  /\ transaction.kind = "next_back"
       => result = word_next_back(ClaimedClassesOf(text_buffer), transaction.pos)

\* ------------------------------------------------------------------ C20
\* C20 (as amended): when exactly one of (prev, next) is Punctuation the
\* judgment is Both exactly if the other class is Other; next to Space, Cr
\* and Lf the space and line-break arms decide: (Punctuation, Space),
\* (Punctuation, Cr) and (Punctuation, Lf) are End, (Space, Punctuation)
\* and (Lf, Punctuation) are Start, (Cr, Punctuation) is Interior.
C20_BothNextToOther ==
  ( /\ transaction.kind = "classify_boundary"
    /\ (transaction.prev_class = "Punctuation") # (transaction.next_class = "Punctuation") )
  => LET other == IF transaction.prev_class = "Punctuation"
                  THEN transaction.next_class ELSE transaction.prev_class
     IN  /\ (result = "Both") <=> (other = "Other")
         /\ (transaction.prev_class = "Punctuation" /\ other \in {"Space", "Cr", "Lf"})
              => result = "End"
         /\ (transaction.next_class = "Punctuation" /\ other \in {"Space", "Lf"})
              => result = "Start"
         /\ (transaction.next_class = "Punctuation" /\ other = "Cr")
              => result = "Interior"

\* C20 (as claimed): the judgment is Both whenever exactly one of
\* (prev, next) is Punctuation.
C20_BothNextToAnyClass ==
  ( /\ transaction.kind = "classify_boundary"
    /\ (transaction.prev_class = "Punctuation") # (transaction.next_class = "Punctuation") )
  => result = "Both"

\* The judgment of (Other, Punctuation) was Both.
C20_Witness ==
  /\ transaction.kind = "classify_boundary"
  /\ transaction.prev_class = "Other"
  /\ transaction.next_class = "Punctuation"
  /\ result = "Both"

\* ========================================================== CursorRange
\* selection.rs (the same methods are in cursor.rs): overlap, containment
\* and merge of two ranges given by anchor and head, in any orientation.
CursorRange(anchor, head) == [anchor |-> anchor, head |-> head]

Positions == 0..MaxLen

CursorRanges == {CursorRange(x, y) : x \in Positions, y \in Positions}

\* CursorRange::overlaps with the ends compared by >= (closed ranges).
overlaps_Closed(self, other) ==
  \/ from(self) = from(other)
  \/ (to(self) >= from(other) /\ to(other) >= from(self))

\* CursorRange::overlaps with the second comparison on the anchor of self.
overlaps_ByAnchor(self, other) ==
  \/ from(self) = from(other)
  \/ (to(self) > from(other) /\ to(other) > self.anchor)

\* CursorRange::overlaps
overlaps(self, other) ==
  \/ from(self) = from(other)
  \/ (to(self) > from(other) /\ to(other) > from(self))

\* CursorRange::contains_range
contains_range(self, other) ==
  from(self) <= from(other) /\ to(self) >= to(other)

\* CursorRange::merge without the from() / to() of the second branch.
range_merge_NoOrientation(self, other) ==
  IF self.anchor > self.head /\ other.anchor > other.head
  THEN CursorRange(Max(self.anchor, other.anchor), Min(self.head, other.head))
  ELSE CursorRange(Min(self.anchor, other.anchor), Max(self.head, other.head))

\* CursorRange::merge
range_merge(self, other) ==
  IF self.anchor > self.head /\ other.anchor > other.head
  THEN CursorRange(Max(self.anchor, other.anchor), Min(self.head, other.head))
  ELSE CursorRange(Min(from(self), from(other)), Max(to(self), to(other)))

InitRange ==
  /\ text_buffer = <<>>
  /\ cursor_range = set_point(0)
  /\ spans = EmptySpans(0)
  /\ transaction = Tx("none", <<>>, 0)
  /\ result = "none"
  /\ pre = Current
  /\ NoTree
  /\ NoFrame
  /\ NoWordCursor

\* a.overlaps(&b)
RangeOverlaps ==
  \E a \in CursorRanges, b \in CursorRanges :
    /\ transaction' = [kind |-> "overlaps", a |-> a, b |-> b]
    /\ result' = overlaps(a, b)
    /\ UNCHANGED <<ctx_vars, tree_vars, frame, word_cursor>>

\* a.merge(b)
RangeMerge ==
  \E a \in CursorRanges, b \in CursorRanges :
    /\ transaction' = [kind |-> "merge", a |-> a, b |-> b]
    /\ result' = range_merge(a, b)
    /\ UNCHANGED <<ctx_vars, tree_vars, frame, word_cursor>>

NextRange == RangeOverlaps \/ RangeMerge

SpecRange == InitRange /\ [][NextRange]_vars

\* ------------------------------------------------------------------ C21
\* C21: overlaps treats ranges as half-open whatever their orientation: two
\* non-empty ranges that only touch (a.to() = b.from()) do not overlap, an
\* empty range overlaps every range that starts at its position, and in
\* general a.overlaps(b) holds iff a.from() = b.from() or
\* (a.to() > b.from() and b.to() > a.from()).
C21_OverlapsHalfOpen ==
  transaction.kind = "overlaps" =>
    LET a == transaction.a
        b == transaction.b
    IN  /\ (~is_empty(a) /\ ~is_empty(b) /\ to(a) = from(b)) => result = FALSE
        /\ (is_empty(a) /\ from(b) = a.head) => result = TRUE
        /\ result = ( \/ from(a) = from(b)
                      \/ (to(a) > from(b) /\ to(b) > from(a)) )

\* A backward range and a forward range that only touch were compared.
C21_Witness ==
  /\ transaction.kind = "overlaps"
  /\ transaction.a = CursorRange(1, 0)
  /\ transaction.b = CursorRange(1, 2)
  /\ result = FALSE

\* ------------------------------------------------------------------ C22
\* C22: overlap is symmetric: for all cursor ranges a and b, of any
\* orientation, empty or not, a.overlaps(b) = b.overlaps(a).
C22_OverlapsSymmetric ==
  transaction.kind = "overlaps" =>
    result = overlaps(transaction.b, transaction.a)

\* A backward range was compared with an empty range inside it.
C22_Witness ==
  /\ transaction.kind = "overlaps"
  /\ transaction.a = CursorRange(2, 0)
  /\ transaction.b = CursorRange(1, 1)
  /\ result = TRUE

\* ------------------------------------------------------------------ C23
\* C23: a.merge(b) contains both a and b, for every combination of forward,
\* backward and empty ranges, and is the smallest such range: its from is
\* the least of the froms and its to the greatest of the tos.
C23_MergeContainsBoth ==
  transaction.kind = "merge" =>
    LET a == transaction.a
        b == transaction.b
    IN  /\ contains_range(result, a)
        /\ contains_range(result, b)
        /\ from(result) = Min(from(a), from(b))
        /\ to(result) = Max(to(a), to(b))

\* A forward range was merged with a backward range that it does not touch.
C23_Witness ==
  /\ transaction.kind = "merge"
  /\ transaction.a = CursorRange(0, 1)
  /\ transaction.b = CursorRange(3, 2)
  /\ result = CursorRange(0, 3)

\* ======================================================= PeritextCursor
\* buffer/peritext_buffer/cursor_impl.rs: the n-th grapheme boundary before
\* and after the head, by n single steps of a GraphemeCursor over the whole
\* text.

\* GraphemeCursor::next_boundary at a char boundary o <= len: None at the end
\* of the text.
next_boundary(t, o) == IF o = Len(t) THEN None ELSE NextBoundaryFrom(t, o)

\* GraphemeCursor::prev_boundary: None at the start of the text.
prev_boundary(t, o) == IF o = 0 THEN None ELSE PrevBoundaryFrom(t, o)

\* nth_next_grapheme_boundary that answers the offset reached so far when a
\* step fails.
RECURSIVE nth_next_grapheme_boundary_Partial(_, _, _)
nth_next_grapheme_boundary_Partial(t, o, n) ==
  IF n = 0 THEN o
  ELSE LET next_byte_offset == next_boundary(t, o)
       IN  IF next_byte_offset = None THEN o
           ELSE nth_next_grapheme_boundary_Partial(t, next_byte_offset, n - 1)

\* PeritextCursor::nth_next_grapheme_boundary: the loop `for _ in 0..n`,
\* leaving with None at the first step that fails.
RECURSIVE nth_next_grapheme_boundary(_, _, _)
nth_next_grapheme_boundary(t, o, n) ==
  IF n = 0 THEN o
  ELSE LET next_byte_offset == next_boundary(t, o)
       IN  IF next_byte_offset = None THEN None
           ELSE nth_next_grapheme_boundary(t, next_byte_offset, n - 1)

\* PeritextCursor::nth_prev_grapheme_boundary
RECURSIVE nth_prev_grapheme_boundary(_, _, _)
nth_prev_grapheme_boundary(t, o, n) ==
  IF n = 0 THEN o
  ELSE LET prev_byte_offset == prev_boundary(t, o)
       IN  IF prev_byte_offset = None THEN None
           ELSE nth_prev_grapheme_boundary(t, prev_byte_offset, n - 1)

\* One call on a cursor whose head is at `head`, and the call before it.
BoundaryCall(kind, n, head, prior) ==
  [kind |-> kind, n |-> n, head |-> head, prior |-> prior]

NoCall == [kind |-> "none", n |-> 0, head |-> 0, result |-> None]

LastCall ==
  IF transaction.kind \in {"nth_next", "nth_prev"}
  THEN [kind |-> transaction.kind, n |-> transaction.n,
        head |-> transaction.head, result |-> result]
  ELSE NoCall

\* A PeritextCursor over a text with its head on a grapheme boundary.
InitGrapheme ==
  /\ text_buffer \in Texts
  /\ \E i \in 0..Len(text_buffer) :
       /\ IsGraphemeBoundary(text_buffer, i)
       /\ cursor_range = set_point(i)
  /\ spans = EmptySpans(Len(text_buffer))
  /\ transaction = Tx("none", <<>>, 0)
  /\ result = "none"
  /\ pre = Current
  /\ NoTree
  /\ NoFrame
  /\ NoWordCursor

\* cursor.nth_next_grapheme_boundary(n); the caller sets the cursor to the
\* offset it is given.
NthNextGraphemeBoundary ==
  \E n \in Counts :
    LET offset == nth_next_grapheme_boundary(text_buffer, cursor_range.head, n)
    IN  /\ transaction' = BoundaryCall("nth_next", n, cursor_range.head, LastCall)
        /\ result' = offset
        /\ cursor_range' = IF offset = None THEN cursor_range ELSE set_point(offset)
        /\ UNCHANGED <<text_buffer, spans, pre, tree_vars, frame, word_cursor>>

\* cursor.nth_prev_grapheme_boundary(n)
NthPrevGraphemeBoundary ==
  \E n \in Counts :
    LET offset == nth_prev_grapheme_boundary(text_buffer, cursor_range.head, n)
    IN  /\ transaction' = BoundaryCall("nth_prev", n, cursor_range.head, LastCall)
        /\ result' = offset
        /\ cursor_range' = IF offset = None THEN cursor_range ELSE set_point(offset)
        /\ UNCHANGED <<text_buffer, spans, pre, tree_vars, frame, word_cursor>>

NextGrapheme == NthNextGraphemeBoundary \/ NthPrevGraphemeBoundary

SpecGrapheme == InitGrapheme /\ [][NextGrapheme]_vars

\* ------------------------------------------------------------------ C24
\* C24: from an offset i on a grapheme boundary, if
\* nth_prev_grapheme_boundary(n) yields Some(j) and
\* nth_next_grapheme_boundary(n) from j yields Some(k), then k = i; and each
\* of the two yields None, not a partial result, exactly when fewer than n
\* boundaries remain in its direction.
C24_GraphemeRoundTrip ==
  /\ ( /\ transaction.kind = "nth_next"
       /\ transaction.prior.kind = "nth_prev"
       /\ transaction.prior.n = transaction.n
       /\ transaction.prior.result # None
       /\ result # None )
     => /\ transaction.head = transaction.prior.result
        /\ result = transaction.prior.head
  /\ transaction.kind = "nth_next"
     => (result = None) <=>
          (Cardinality(BoundariesAfter(text_buffer, transaction.head))
             < transaction.n)
  /\ transaction.kind = "nth_prev"
     => (result = None) <=>
          (Cardinality(BoundariesBefore(text_buffer, transaction.head))
             < transaction.n)

\* Two boundaries back over a letter and a two-byte mark, and two boundaries
\* forward again.
C24_Witness ==
  /\ text_buffer = CharMark \o CharA
  /\ transaction.kind = "nth_next"
  /\ transaction.n = 2
  /\ transaction.prior.kind = "nth_prev"
  /\ transaction.prior.n = 2
  /\ transaction.prior.head = 3
  /\ transaction.prior.result = 0
  /\ result = 3

\* ============================================================= encoding
\* encoding.rs: offsets converted between UTF-8 bytes and UTF-16 code units.
\* A text is a sequence of characters, one of each width that matters:
\* 'a' (1 byte, 1 unit), U+00D7 (2 bytes, 1 unit) and U+1F600 (4 bytes, a
\* surrogate pair).
Codepoints == {"a", "U+00D7", "U+1F600"}

\* char::len_utf8
len_utf8(ch) ==
  CASE ch = "a" -> 1
    [] ch = "U+00D7" -> 2
    [] ch = "U+1F600" -> 4

\* char::len_utf16
len_utf16(ch) == IF ch = "U+1F600" THEN 2 ELSE 1

RECURSIVE CodepointTextsUpTo(_)
CodepointTextsUpTo(n) ==
  IF n = 0 THEN {<<>>}
  ELSE LET shorter == CodepointTextsUpTo(n - 1)
       IN  shorter \cup {Append(t, c) : t \in shorter, c \in Codepoints}

CodepointTexts == CodepointTextsUpTo(MaxLen)

\* str::len and the number of UTF-16 code units of a text.
RECURSIVE Utf8Len(_)
Utf8Len(text) ==
  IF text = <<>> THEN 0 ELSE len_utf8(Head(text)) + Utf8Len(Tail(text))

RECURSIVE Utf16Len(_)
Utf16Len(text) ==
  IF text = <<>> THEN 0 ELSE len_utf16(Head(text)) + Utf16Len(Tail(text))

\* The loop of offset_utf8_to_utf16 from the i-th item (utf8_offset, ch) of
\* char_indices on: Equal and Greater return utf16_offset, and so do both
\* ways out after the loop.
RECURSIVE Utf8ToUtf16From(_, _, _, _, _)
Utf8ToUtf16From(text, i, utf8_offset, utf16_offset, offset) ==
  IF i > Len(text) THEN utf16_offset
  ELSE IF utf8_offset >= offset THEN utf16_offset
  ELSE Utf8ToUtf16From(text, i + 1, utf8_offset + len_utf8(text[i]),
                       utf16_offset + len_utf16(text[i]), offset)

\* The same loop with one code unit counted for every character.
RECURSIVE Utf8ToUtf16From_OneUnit(_, _, _, _, _)
Utf8ToUtf16From_OneUnit(text, i, utf8_offset, utf16_offset, offset) ==
  IF i > Len(text) THEN utf16_offset
  ELSE IF utf8_offset >= offset THEN utf16_offset
  ELSE Utf8ToUtf16From_OneUnit(text, i + 1, utf8_offset + len_utf8(text[i]),
                               utf16_offset + 1, offset)

offset_utf8_to_utf16_OneUnit(text, offset) ==
  IF offset = 0 THEN 0 ELSE Utf8ToUtf16From_OneUnit(text, 1, 0, 0, offset)

\* offset_utf8_to_utf16 (offset_utf8_to_utf16_str)
offset_utf8_to_utf16(text, offset) ==
  IF offset = 0 THEN 0 ELSE Utf8ToUtf16From(text, 1, 0, 0, offset)

\* The loop of offset_utf16_to_utf8: Equal and Greater return utf8_offset;
\* after the loop the answer is the end of the last character, or 0.
RECURSIVE Utf16ToUtf8From(_, _, _, _, _)
Utf16ToUtf8From(text, i, utf8_offset, utf16_offset, offset) ==
  IF i > Len(text) THEN utf8_offset
  ELSE IF utf16_offset >= offset THEN utf8_offset
  ELSE Utf16ToUtf8From(text, i + 1, utf8_offset + len_utf8(text[i]),
                       utf16_offset + len_utf16(text[i]), offset)

\* offset_utf16_to_utf8 (offset_utf16_to_utf8_str)
offset_utf16_to_utf8(text, offset) ==
  IF offset = 0 THEN 0 ELSE Utf16ToUtf8From(text, 1, 0, 0, offset)

InitEncoding ==
  /\ text_buffer \in CodepointTexts
  /\ cursor_range = set_point(0)
  /\ spans = EmptySpans(0)
  /\ transaction = Tx("none", <<>>, 0)
  /\ result = "none"
  /\ pre = Current
  /\ NoTree
  /\ NoFrame
  /\ NoWordCursor

\* offset_utf8_to_utf16_str(text, offset), offsets up to two past the end.
Utf8ToUtf16 ==
  \E offset \in 0..(Utf8Len(text_buffer) + 2) :
    /\ transaction' = [kind |-> "utf8_to_utf16", offset |-> offset]
    /\ result' = offset_utf8_to_utf16(text_buffer, offset)
    /\ UNCHANGED <<ctx_vars, tree_vars, frame, word_cursor>>

\* offset_utf16_to_utf8_str(text, offset)
Utf16ToUtf8 ==
  \E offset \in 0..(Utf16Len(text_buffer) + 2) :
    /\ transaction' = [kind |-> "utf16_to_utf8", offset |-> offset]
    /\ result' = offset_utf16_to_utf8(text_buffer, offset)
    /\ UNCHANGED <<ctx_vars, tree_vars, frame, word_cursor>>

NextEncoding == Utf8ToUtf16 \/ Utf16ToUtf8

SpecEncoding == InitEncoding /\ [][NextEncoding]_vars

\* ------------------------------------------------------------------ C25
\* The prefixes of a text, by number of characters.
Prefixes(text) == {SubSeq(text, 1, k) : k \in 0..Len(text)}

\* C25: for a byte offset o <= len on a character boundary,
\* offset_utf8_to_utf16 is the number of UTF-16 code units of text[..o]
\* (a character outside the BMP counts 2) and offset_utf16_to_utf8 maps that
\* number back to o; an offset past the end is clamped to the length of the
\* text in the target encoding.
C25_OffsetConversion ==
  /\ transaction.kind = "utf8_to_utf16" =>
       /\ \A p \in Prefixes(text_buffer) :
            transaction.offset = Utf8Len(p) =>
              /\ result = Utf16Len(p)
              /\ offset_utf16_to_utf8(text_buffer, result) = transaction.offset
       /\ transaction.offset > Utf8Len(text_buffer)
            => result = Utf16Len(text_buffer)
  /\ transaction.kind = "utf16_to_utf8" =>
       /\ \A p \in Prefixes(text_buffer) :
            transaction.offset = Utf16Len(p) => result = Utf8Len(p)
       /\ transaction.offset > Utf16Len(text_buffer)
            => result = Utf8Len(text_buffer)

\* The offset after a character outside the BMP, followed by a letter, was
\* converted to UTF-16.
C25_Witness ==
  /\ text_buffer = <<"U+1F600", "a">>
  /\ transaction.kind = "utf8_to_utf16"
  /\ transaction.offset = 4
  /\ result = 2

\* ------------------------------------------------------------------ C26
\* C26: DeleteSelection on an empty cursor range (anchor = head) is a no-op:
\* it returns Ok(false) and leaves the buffer text, the cursor range and the
\* spans as they were.
C26_DeleteSelectionEmptyNoOp ==
  (transaction.kind = "DeleteSelection" /\ is_empty(pre.cursor_range))
  => /\ result = "Ok(false)"
     /\ text_buffer = pre.text_buffer
     /\ cursor_range = pre.cursor_range
     /\ spans = pre.spans

\* DeleteSelection was consumed with an empty range inside a buffer that is
\* not empty.
C26_Witness ==
  /\ transaction.kind = "DeleteSelection"
  /\ is_empty(pre.cursor_range)
  /\ 0 < pre.cursor_range.head
  /\ pre.cursor_range.head < Len(pre.text_buffer)
  /\ result = "Ok(false)"

\* ============================================================= Interval
\* span/interval.rs: insert and find take `I: Into<Interval<N>>`, so a
\* Range start..end goes through Interval::new on its way into the tree.
PointRanges == {[start |-> b, end |-> e] : b \in Points, e \in Points}

\* The number of ranges handed to insert.
MaxRanges == 3

\* Interval::new: Ok(Interval(r)) or Err(IntervalError::InvalidRange)
Interval_new(r) ==
  IF r.end >= r.start THEN [ok |-> TRUE, interval |-> r]
  ELSE [ok |-> FALSE, error |-> "InvalidRange"]

\* impl From<Range<N>> for Interval<N>: the interval, or a panic on Err.
Interval_from(r) ==
  IF Interval_new(r).ok THEN [panic |-> FALSE, interval |-> Interval_new(r).interval]
  ELSE [panic |-> TRUE]

\* The last call panicked in its conversion.
ConversionPanicked ==
  /\ transaction.kind \in {"insert", "find"}
  /\ Interval_from(transaction.interval).panic

\* tree.insert(start..end, data); a panic of the conversion unwinds before
\* the tree is touched, and there is no call after it.
InsertRange ==
  \E r \in PointRanges :
    /\ ~ConversionPanicked
    /\ Len(entries) < MaxRanges
    /\ transaction' = [kind |-> "insert", interval |-> r]
    /\ IF Interval_from(r).panic
       THEN /\ result' = "panic"
            /\ UNCHANGED <<tree, entries>>
       ELSE /\ tree' = insert(tree, Interval_from(r).interval, Len(entries) + 1)
            /\ entries' = Append(entries, Interval_from(r).interval)
            /\ result' = "()"
    /\ UNCHANGED <<updates, ctx_vars, frame, word_cursor>>

\* tree.find(start..end).collect(); as in Find, a find that follows a find
\* is left out.
FindRange ==
  \E r \in PointRanges :
    /\ ~ConversionPanicked
    /\ transaction.kind # "find"
    /\ transaction' = [kind |-> "find", interval |-> r]
    /\ result' = IF Interval_from(r).panic THEN "panic"
                 ELSE find(tree, Interval_from(r).interval)
    /\ UNCHANGED <<tree_vars, ctx_vars, frame, word_cursor>>

NextTreeRange == InsertRange \/ FindRange

SpecTreeRange == InitTree /\ [][NextTreeRange]_vars

\* ------------------------------------------------------------------ C27
\* C27: zero-width intervals take no part in an overlap: find never yields
\* a stored interval with start = end, whatever the query, and a query with
\* start = end yields nothing, whatever the tree holds; a range with
\* end < start is never stored (Interval::new answers Err and the
\* conversion from a Range panics), so every stored interval has
\* start <= end.
C27_ZeroWidthNeverFound ==
  /\ (transaction.kind = "find" /\ ~ConversionPanicked)
     => /\ \A e \in AsSet(result) : e.interval.start < e.interval.end
        /\ transaction.interval.start = transaction.interval.end
             => result = <<>>
  /\ transaction.kind \in {"insert", "find"}
     => IF transaction.interval.end < transaction.interval.start
        THEN /\ ~Interval_new(transaction.interval).ok
             /\ result = "panic"
        ELSE transaction.kind = "insert" => result = "()"
  /\ EntriesOf(tree) = Stored
  /\ \A e \in EntriesOf(tree) : e.interval.start <= e.interval.end

\* A query of positive width over a stored zero-width interval and a stored
\* interval of positive width yielded the second only.
C27_Witness ==
  /\ transaction.kind = "find"
  /\ transaction.interval = [start |-> 0, end |-> 2]
  /\ \E e \in Stored : e.interval = [start |-> 1, end |-> 1]
  /\ Len(result) = 1
  /\ result[1].interval = [start |-> 1, end |-> 2]

\* ------------------------------------------------------------------ C28
\* The number of nodes of the tree.
RECURSIVE CountNodes(_)
CountNodes(son) ==
  IF son = <<>> THEN 0
  ELSE 1 + CountNodes(son[1].left) + CountNodes(son[1].right)

\* C28: insertion and rebalancing neither lose nor separate entries: after
\* any sequence of inserts the (interval, data) pairs the tree holds are the
\* pairs that were inserted, each in one node, across single and double
\* rotations.
C28_EntriesKept ==
  transaction.kind = "insert"
  => /\ EntriesOf(tree) = Stored
     /\ CountNodes(tree) = Len(entries)

\* The third insert went between the first two and a double rotation
\* brought its pair to the root.
C28_Witness ==
  /\ transaction.kind = "insert"
  /\ Len(entries) = 3
  /\ entries[1].start # entries[2].start
  /\ tree[1].value = 3
  /\ tree[1].interval = entries[3]

\* ------------------------------------------------------------------ C29
\* TextEditorContext::new with an empty cursor range (a point).
InitPoint ==
  /\ Init
  /\ is_empty(cursor_range)

SpecPoint == InitPoint /\ [][Next]_vars

\* C29: starting from an empty cursor range, the cursor range is empty in
\* every state a sequence of transactions reaches: no transaction creates a
\* selection, and so every DeleteSelection returns Ok(false).
C29_RangeStaysEmpty ==
  /\ is_empty(cursor_range)
  /\ transaction.kind = "DeleteSelection" => result = "Ok(false)"

\* MoveCursorHeadTo took the head to another offset and the anchor went
\* with it.
C29_Witness ==
  /\ transaction.kind = "MoveCursorHeadTo"
  /\ transaction.n # pre.cursor_range.head
  /\ cursor_range.head = transaction.n
  /\ is_empty(cursor_range)

\* ------------------------------------------------------------------ C30
\* The events of the frame that egui_transact_fn maps to a transaction.
MappedEvents ==
  {i \in 1..Len(frame.events) :
     egui_transact_fn(frame.events[i].event) # "None"}

\* C30: within one frame that carries several input events, every event
\* that maps to a transaction is consumed once and in arrival order; a
\* transaction that succeeds does not keep the later events of the frame
\* from being translated and applied.
C30_EveryEventConsumed ==
  /\ {frame.consumed[k].index : k \in 1..Len(frame.consumed)} = MappedEvents
  /\ Len(frame.consumed) = Cardinality(MappedEvents)
  /\ \A j \in 1..Len(frame.consumed), k \in 1..Len(frame.consumed) :
       j < k => frame.consumed[j].index < frame.consumed[k].index

====
